---- MODULE Spec2Model ----
(***************************************************************************)
(* A model of the single-file HTTP server in src/src/main.rs: the request  *)
(* parser (parse_request, read_headers), the response serializer           *)
(* (Response::write_to_stream), the route dispatcher (handle_request) and  *)
(* the thread-per-connection handler (main, handle_connection).            *)
(*                                                                         *)
(* A byte is a one-character string and a byte string is a sequence of     *)
(* them; the byte 0xFF (never valid in UTF-8) is written "xFF".            *)
(***************************************************************************)
EXTENDS Integers, Sequences, FiniteSets, TLC

\* ------------------------------------------------------------------ bounds

\* usize::MAX and isize::MAX of the modelled machine, scaled down from 2^64-1
\* and 2^63-1, and the largest block the allocator can hand out.
UsizeMax == 63
IsizeMax == 31
AllocLimit == 4
\* The connections the listener accepts in one run.
MaxConns == 2
\* The header lines of a generated request and the bytes of a generated body.
MaxHeaderLines == 2
MaxBody == 2

\* ------------------------------------------------------------- byte strings

CR == "\r"
LF == "\n"
SP == " "
NonUtf8 == "xFF"
CRLF == <<CR, LF>>
Digits == <<"0", "1", "2", "3", "4", "5", "6", "7", "8", "9">>

\* char::is_whitespace on the bytes of the model's alphabet.
IsWhitespace(ch) == ch \in {SP, "\t", LF, CR}

IsDigit(ch) == \E d \in 1..10 : Digits[d] = ch

DigitVal(ch) == (CHOOSE d \in 1..10 : Digits[d] = ch) - 1

\* String::from_utf8 succeeds.
IsUtf8(s) == \A i \in 1..Len(s) : s[i] # NonUtf8

\* str::find(pat): the first index at which pat occurs in s, 0 when none.
Find(s, pat) ==
    LET hits == {i \in 1..(Len(s) - Len(pat) + 1) : SubSeq(s, i, i + Len(pat) - 1) = pat}
    IN IF hits = {} THEN 0 ELSE CHOOSE i \in hits : \A j \in hits : i <= j

\* str::trim_end: s without its trailing whitespace.
trim_end(s) ==
    LET keep == {i \in 1..Len(s) : ~IsWhitespace(s[i])}
    IN IF keep = {} THEN <<>>
       ELSE SubSeq(s, 1, CHOOSE i \in keep : \A j \in keep : j <= i)

\* str::split(' ') collected: the pieces between the separators, at least one.
RECURSIVE split(_, _)
split(s, sep) ==
    LET i == Find(s, <<sep>>)
    IN IF i = 0 THEN <<s>>
       ELSE <<SubSeq(s, 1, i - 1)>> \o split(SubSeq(s, i + 1, Len(s)), sep)

\* str::split_once(pat): the text before and after the first pat.
split_once(s, pat) ==
    LET i == Find(s, pat)
    IN IF i = 0 THEN [found |-> FALSE, key |-> <<>>, value |-> <<>>]
       ELSE [found |-> TRUE,
             key |-> SubSeq(s, 1, i - 1),
             value |-> SubSeq(s, i + Len(pat), Len(s))]

\* str::strip_prefix(ch).
strip_prefix(s, ch) ==
    IF Len(s) > 0 /\ s[1] = ch
    THEN [found |-> TRUE, rest |-> SubSeq(s, 2, Len(s))]
    ELSE [found |-> FALSE, rest |-> <<>>]

\* The checked accumulation of str::parse::<usize>: -1 on overflow.
RECURSIVE AccumulateDigits(_, _)
AccumulateDigits(acc, ds) ==
    IF ds = <<>> THEN acc
    ELSE LET nxt == acc * 10 + DigitVal(Head(ds))
         IN IF nxt > UsizeMax THEN -1 ELSE AccumulateDigits(nxt, Tail(ds))

\* str::parse::<usize>: an optional '+', then one or more decimal digits.
parse_usize(s) ==
    LET ds == IF Len(s) > 1 /\ s[1] = "+" THEN Tail(s) ELSE s
        ok == ds # <<>> /\ \A i \in 1..Len(ds) : IsDigit(ds[i])
        n == IF ok THEN AccumulateDigits(0, ds) ELSE -1
    IN [ok |-> n >= 0, val |-> IF n >= 0 THEN n ELSE 0]

\* format!("{}", n) of a usize.
RECURSIVE format_usize(_)
format_usize(n) ==
    IF n < 10 THEN <<Digits[n + 1]>>
    ELSE format_usize(n \div 10) \o <<Digits[(n % 10) + 1]>>

\* --------------------------------------------------------------- the reader

\* The inbound side of a connection: the bytes the client sends and what a
\* read meets after them: "eof" (the client closed its sending side), "err"
\* (the read fails, e.g. a reset) or "stall" (the client sends nothing more
\* and keeps the connection open, so the read blocks).
StreamEnds == {"eof", "err", "stall"}

Reader(bytes, end) == [buf |-> bytes, end |-> end]

\* A read_line that reports the end of the stream as an error.
read_line_eof_error(rd) ==
    LET i == Find(rd.buf, <<LF>>)
        line == IF i > 0 THEN SubSeq(rd.buf, 1, i) ELSE rd.buf
        rest == IF i > 0 THEN SubSeq(rd.buf, i + 1, Len(rd.buf)) ELSE <<>>
        kind == IF i = 0 /\ rd.end = "stall" THEN "Block"
                ELSE IF i = 0 /\ (rd.end = "err" \/ rd.buf = <<>>) THEN "Err"
                ELSE IF ~IsUtf8(line) THEN "Err"
                ELSE "Ok"
    IN [kind |-> kind, line |-> line, rd |-> [rd EXCEPT !.buf = rest]]

\* BufRead::read_line: the bytes up to and including the next LF, or up to
\* the end of the stream; fails on a read error and on bytes that are not
\* UTF-8.
read_line(rd) ==
    LET i == Find(rd.buf, <<LF>>)
        line == IF i > 0 THEN SubSeq(rd.buf, 1, i) ELSE rd.buf
        rest == IF i > 0 THEN SubSeq(rd.buf, i + 1, Len(rd.buf)) ELSE <<>>
        kind == IF i = 0 /\ rd.end = "stall" THEN "Block"
                ELSE IF i = 0 /\ rd.end = "err" THEN "Err"
                ELSE IF ~IsUtf8(line) THEN "Err"
                ELSE "Ok"
    IN [kind |-> kind, line |-> line, rd |-> [rd EXCEPT !.buf = rest]]

\* Read::read_exact into a buffer of n bytes.
read_exact(rd, n) ==
    IF Len(rd.buf) >= n
    THEN [kind |-> "Ok", bytes |-> SubSeq(rd.buf, 1, n),
          rd |-> [rd EXCEPT !.buf = SubSeq(rd.buf, n + 1, Len(rd.buf))]]
    ELSE [kind |-> IF rd.end = "stall" THEN "Block" ELSE "Err",
          bytes |-> <<>>, rd |-> [rd EXCEPT !.buf = <<>>]]

\* vec![0; n]: a capacity above isize::MAX panics, a block the allocator
\* cannot supply aborts the process (handle_alloc_error).
vec_zeroed(n) ==
    IF n > IsizeMax THEN "Panic"
    ELSE IF n > AllocLimit THEN "Abort"
    ELSE "Ok"

\* ------------------------------------------------------------------ Request

EmptyMap == [k \in {} |-> <<>>]

\* HashMap::insert.
insert(h, k, v) == [x \in (DOMAIN h) \cup {k} |-> IF x = k THEN v ELSE h[x]]

None == [some |-> FALSE, v |-> <<>>]
Some(x) == [some |-> TRUE, v |-> x]

GET == <<"G", "E", "T">>
POST == <<"P", "O", "S", "T">>
ContentLength == <<"C", "o", "n", "t", "e", "n", "t", "-", "L", "e", "n", "g", "t", "h">>
UserAgent == <<"U", "s", "e", "r", "-", "A", "g", "e", "n", "t">>

Request(verb, path, version, headers, body) ==
    [verb |-> verb, path |-> path, version |-> version,
     headers |-> headers, body |-> body]

NoRequest == Request("Get", <<>>, <<>>, EmptyMap, None)

RequestParseError ==
    {"InvalidVerb", "CouldNotReadStartLine", "InvalidStructure",
     "CouldNotReadHeader", "InvalidHeader", "InvalidContentLength",
     "CouldNotReadBody"}

\* read_headers: one line at a time until a line that is empty once
\* trimmed (the end of the stream reads as an empty line).
RECURSIVE read_headers_loop(_, _)
read_headers_loop(rd, headers) ==
    LET r == read_line(rd)
        header_line == trim_end(r.line)
        kv == split_once(header_line, <<":", SP>>)
    IN IF r.kind = "Block" THEN [kind |-> "Block", err |-> "", headers |-> headers, rd |-> r.rd]
       ELSE IF r.kind = "Err"
       THEN [kind |-> "Err", err |-> "CouldNotReadHeader", headers |-> headers, rd |-> r.rd]
       ELSE IF header_line = <<>>
       THEN [kind |-> "Ok", err |-> "", headers |-> headers, rd |-> r.rd]
       ELSE IF kv.found
       THEN read_headers_loop(r.rd, insert(headers, kv.key, kv.value))
       ELSE [kind |-> "Err", err |-> "InvalidHeader", headers |-> headers, rd |-> r.rd]

read_headers(rd) == read_headers_loop(rd, EmptyMap)

ParseResult(kind, err, request, rd) ==
    [kind |-> kind, err |-> err, request |-> request, rd |-> rd]

\* The body step of parse_request: Content-Length, the buffer, read_exact.
read_body(rd, verb, path, version, headers) ==
    IF ContentLength \notin DOMAIN headers
    THEN ParseResult("Ok", "", Request(verb, path, version, headers, None), rd)
    ELSE LET n == parse_usize(headers[ContentLength])
             b == read_exact(rd, n.val)
         IN IF ~n.ok THEN ParseResult("Err", "InvalidContentLength", NoRequest, rd)
            ELSE IF vec_zeroed(n.val) # "Ok" THEN ParseResult(vec_zeroed(n.val), "", NoRequest, rd)
            ELSE IF b.kind = "Block" THEN ParseResult("Block", "", NoRequest, b.rd)
            ELSE IF b.kind = "Err" THEN ParseResult("Err", "CouldNotReadBody", NoRequest, b.rd)
            ELSE ParseResult("Ok", "",
                             Request(verb, path, version, headers, Some(b.bytes)), b.rd)

\* parse_request: "Ok" with the Request, "Err" with a RequestParseError,
\* "Block" when a read never returns, "Panic" and "Abort" from the body
\* buffer's allocation.
parse_request(stream) ==
    LET sl == read_line(stream)
        toks == split(sl.line, SP)
        verb_str == toks[1]
        hs == read_headers(sl.rd)
    IN IF sl.kind = "Block" THEN ParseResult("Block", "", NoRequest, sl.rd)
       ELSE IF sl.kind = "Err" THEN ParseResult("Err", "CouldNotReadStartLine", NoRequest, sl.rd)
       ELSE IF Len(toks) < 3 THEN ParseResult("Err", "InvalidStructure", NoRequest, sl.rd)
       ELSE IF verb_str # GET /\ verb_str # POST
       THEN ParseResult("Err", "InvalidVerb", NoRequest, sl.rd)
       ELSE IF hs.kind # "Ok" THEN ParseResult(hs.kind, hs.err, NoRequest, hs.rd)
       ELSE read_body(hs.rd, IF verb_str = GET THEN "Get" ELSE "Post",
                      toks[2], toks[3], hs.headers)

\* ----------------------------------------------------------------- Response

StatusCode(code, status) == [code |-> code, status |-> status]

OK == StatusCode(200, <<"O", "K">>)
CREATED == StatusCode(201, <<"C", "r", "e", "a", "t", "e", "d">>)
NOT_FOUND == StatusCode(404, <<"N", "o", "t", " ", "F", "o", "u", "n", "d">>)
INTERNAL_SERVER_ERROR == StatusCode(500, <<"I", "n", "t", "e", "r", "n", "a", "l", " ", "S", "e", "r", "v", "e", "r", " ", "E", "r", "r", "o", "r">>)

TextPlain == <<"t", "e", "x", "t", "/", "p", "l", "a", "i", "n">>
OctetStream == <<"a", "p", "p", "l", "i", "c", "a", "t", "i", "o", "n", "/", "o", "c", "t", "e", "t", "-", "s", "t", "r", "e", "a", "m">>
ContentType == <<"C", "o", "n", "t", "e", "n", "t", "-", "T", "y", "p", "e">>
HttpVersion == <<"H", "T", "T", "P", "/", "1", ".", "1", " ">>

Content(mime_type, content) == [mime_type |-> mime_type, content |-> content]

Response(status_code, content) == [status_code |-> status_code, content |-> content]

empty_response(status_code) == Response(status_code, None)

text_reponse(status_code, text) == Response(status_code, Some(Content(TextPlain, text)))

NoResponse == empty_response(StatusCode(0, <<>>))

\* write_newline: one write_all call.
write_newline == <<CRLF>>

\* A header written with a bare colon.
write_header_bare_colon(key, value) == <<key, <<":">>, value>> \o write_newline

\* write_header: write!("{}: {}") hands the stream the key, the separator and
\* the value, then write_newline.
write_header(key, value) == <<key, <<":", SP>>, value>> \o write_newline

\* A serializer that ends a response without content after one blank line.
write_calls_one_blank(response) ==
    <<HttpVersion, format_usize(response.status_code.code), <<SP>>,
      response.status_code.status>>
    \o write_newline
    \o (IF response.content.some
        THEN write_header(ContentType, response.content.v.mime_type)
             \o write_header(ContentLength,
                             format_usize(Len(response.content.v.content)))
             \o write_newline
             \o <<response.content.v.content>>
        ELSE write_newline)

\* The write calls of Response::write_to_stream, in order, each with the
\* bytes it hands to the stream.
write_calls(response) ==
    <<HttpVersion, format_usize(response.status_code.code), <<SP>>,
      response.status_code.status>>
    \o write_newline
    \o (IF response.content.some
        THEN write_header(ContentType, response.content.v.mime_type)
             \o write_header(ContentLength,
                             format_usize(Len(response.content.v.content)))
             \o write_newline
             \o <<response.content.v.content>>
        ELSE write_newline \o write_newline)

RECURSIVE Flatten(_)
Flatten(chunks) == IF chunks = <<>> THEN <<>> ELSE Head(chunks) \o Flatten(Tail(chunks))

\* Response::write_to_stream on a stream that fails at write call number
\* `fault` (counted from 0; -1 for a stream that never fails): the bytes that
\* reach the peer and whether the call returned Ok.
write_to_stream(response, fault) ==
    LET calls == write_calls(response)
        done == IF fault < 0 \/ fault >= Len(calls) THEN Len(calls) ELSE fault
    IN [ok |-> done = Len(calls), out |-> Flatten(SubSeq(calls, 1, done))]

\* -------------------------------------------------------------- file store

\* The file system as the server sees it: the directories that exist and
\* the bytes of each regular file, by path.
RootDir == <<"/", "d">>

FileSystem(dirs, files) == [dirs |-> dirs, files |-> files]

EmptyFs == FileSystem({RootDir}, EmptyMap)

LastSlash(path) ==
    LET at == {i \in 1..Len(path) : path[i] = "/"}
    IN IF at = {} THEN 0 ELSE CHOOSE i \in at : \A j \in at : j <= i

ParentDir(path) == SubSeq(path, 1, LastSlash(path) - 1)

FileName(path) == SubSeq(path, LastSlash(path) + 1, Len(path))

\* [files_root, filename].iter().collect::<PathBuf>(): PathBuf::push, which
\* replaces the path when the pushed component is absolute.
join_path(root, filename) ==
    IF Len(filename) > 0 /\ filename[1] = "/" THEN filename
    ELSE root \o <<"/">> \o filename

\* std::fs::read.
fs_read(fs, path) ==
    IF path \in DOMAIN fs.files
    THEN [ok |-> TRUE, bytes |-> fs.files[path]]
    ELSE [ok |-> FALSE, bytes |-> <<>>]

\* An open that creates the file but keeps what an existing file holds.
fs_create_keep(fs, path) ==
    IF ParentDir(path) \in fs.dirs /\ FileName(path) # <<>> /\ path \notin fs.dirs
    THEN [ok |-> TRUE,
          fs |-> IF path \in DOMAIN fs.files THEN fs
                 ELSE [fs EXCEPT !.files = insert(fs.files, path, <<>>)]]
    ELSE [ok |-> FALSE, fs |-> fs]

\* File::create, the first half of std::fs::write: the file exists and is
\* empty afterwards; fails when the path names a directory or its parent
\* directory does not exist.
fs_create(fs, path) ==
    IF ParentDir(path) \in fs.dirs /\ FileName(path) # <<>> /\ path \notin fs.dirs
    THEN [ok |-> TRUE, fs |-> [fs EXCEPT !.files = insert(fs.files, path, <<>>)]]
    ELSE [ok |-> FALSE, fs |-> fs]

\* A write to a file opened for appending: the bytes land after what the
\* file holds by then.
fs_write_all_append(fs, path, bytes) ==
    LET old == IF path \in DOMAIN fs.files THEN fs.files[path] ELSE <<>>
    IN [fs EXCEPT !.files = insert(fs.files, path, old \o bytes)]

\* A single write that stops after the first byte and is not retried.
fs_write_short(fs, path, bytes) ==
    LET old == IF path \in DOMAIN fs.files THEN fs.files[path] ELSE <<>>
    IN [fs EXCEPT !.files =
            insert(fs.files, path, SubSeq(bytes, 1, 1) \o SubSeq(old, 2, Len(old)))]

\* write_all on the created file, the second half of std::fs::write: the
\* bytes land at offset 0, over whatever the file holds by then.
fs_write_all(fs, path, bytes) ==
    LET old == IF path \in DOMAIN fs.files THEN fs.files[path] ELSE <<>>
    IN [fs EXCEPT !.files =
            insert(fs.files, path, bytes \o SubSeq(old, Len(bytes) + 1, Len(old)))]

\* std::fs::write run without interruption.
fs_write(fs, path, bytes) ==
    LET c == fs_create(fs, path)
    IN IF c.ok THEN [ok |-> TRUE, fs |-> fs_write_all(c.fs, path, bytes)]
       ELSE [ok |-> FALSE, fs |-> fs]

\* A file_response that tells a missing file from an unreadable path.
file_response_forbidden(fs, path) ==
    IF fs_read(fs, path).ok
    THEN Response(OK, Some(Content(OctetStream, fs_read(fs, path).bytes)))
    ELSE IF ParentDir(path) \in fs.dirs /\ FileName(path) # <<>>
    THEN empty_response(NOT_FOUND)
    ELSE empty_response(StatusCode(403, <<"F", "o", "r", "b", "i", "d", "d", "e", "n">>))

\* Response::file_response.
file_response(fs, path) ==
    IF fs_read(fs, path).ok
    THEN Response(OK, Some(Content(OctetStream, fs_read(fs, path).bytes)))
    ELSE empty_response(NOT_FOUND)

\* ---------------------------------------------------------------- dispatch

UserAgentPath == <<"u", "s", "e", "r", "-", "a", "g", "e", "n", "t">>
EchoSegment == <<"e", "c", "h", "o">>
FilesSegment == <<"f", "i", "l", "e", "s">>

\* A match that splits the path at its last '/' instead of its first.
route_rsplit(request) ==
    LET sp == strip_prefix(request.path, "/")
        i == LastSlash(sp.rest)
        so == [found |-> i > 0, key |-> SubSeq(sp.rest, 1, i - 1),
               value |-> SubSeq(sp.rest, i + 1, Len(sp.rest))]
    IN IF ~sp.found THEN [arm |-> "not_found", arg |-> <<>>]
       ELSE IF sp.rest = <<>> THEN [arm |-> "root", arg |-> <<>>]
       ELSE IF sp.rest = UserAgentPath THEN [arm |-> "user_agent", arg |-> <<>>]
       ELSE IF so.found /\ so.key = EchoSegment THEN [arm |-> "echo", arg |-> so.value]
       ELSE IF so.found /\ so.key = FilesSegment THEN [arm |-> "files", arg |-> so.value]
       ELSE [arm |-> "not_found", arg |-> <<>>]

\* A match that takes a path without a second '/' as a segment with an
\* empty remainder.
route_bare_segment(request) ==
    LET sp == strip_prefix(request.path, "/")
        so == split_once(sp.rest, <<"/">>)
        key == IF so.found THEN so.key ELSE sp.rest
        value == IF so.found THEN so.value ELSE <<>>
    IN IF ~sp.found THEN [arm |-> "not_found", arg |-> <<>>]
       ELSE IF sp.rest = <<>> THEN [arm |-> "root", arg |-> <<>>]
       ELSE IF sp.rest = UserAgentPath THEN [arm |-> "user_agent", arg |-> <<>>]
       ELSE IF key = EchoSegment THEN [arm |-> "echo", arg |-> value]
       ELSE IF key = FilesSegment THEN [arm |-> "files", arg |-> value]
       ELSE [arm |-> "not_found", arg |-> <<>>]

\* The arm of handle_request's match that a request takes, with the text
\* the arm binds.
route(request) ==
    LET sp == strip_prefix(request.path, "/")
        so == split_once(sp.rest, <<"/">>)
    IN IF ~sp.found THEN [arm |-> "not_found", arg |-> <<>>]
       ELSE IF sp.rest = <<>> THEN [arm |-> "root", arg |-> <<>>]
       ELSE IF sp.rest = UserAgentPath THEN [arm |-> "user_agent", arg |-> <<>>]
       ELSE IF so.found /\ so.key = EchoSegment THEN [arm |-> "echo", arg |-> so.value]
       ELSE IF so.found /\ so.key = FilesSegment THEN [arm |-> "files", arg |-> so.value]
       ELSE [arm |-> "not_found", arg |-> <<>>]

HandleResult(kind, response, fs) == [kind |-> kind, response |-> response, fs |-> fs]

\* The request reaches std::fs::write: the files arm, files_root configured,
\* POST, body present.
reaches_write(request, files_root) ==
    /\ route(request).arm = "files"
    /\ files_root.some
    /\ request.verb = "Post"
    /\ request.body.some

\* A handle_request that takes a missing User-Agent header for an empty one
\* and a missing body for an empty one.
handle_request_or_default(request, files_root, fs) ==
    LET r == route(request)
        path == join_path(files_root.v, r.arg)
        w == fs_write(fs, path, request.body.v)
    IN CASE r.arm = "root" -> HandleResult("Response", empty_response(OK), fs)
         [] r.arm = "user_agent" ->
              IF UserAgent \in DOMAIN request.headers
              THEN HandleResult("Response", text_reponse(OK, request.headers[UserAgent]), fs)
              ELSE HandleResult("Response", text_reponse(OK, <<>>), fs)
         [] r.arm = "echo" -> HandleResult("Response", text_reponse(OK, r.arg), fs)
         [] r.arm = "files" ->
              IF ~files_root.some THEN HandleResult("Panic", NoResponse, fs)
              ELSE IF request.verb = "Get"
              THEN HandleResult("Response", file_response(fs, path), fs)
              ELSE IF w.ok THEN HandleResult("Response", empty_response(CREATED), w.fs)
              ELSE HandleResult("Response", empty_response(INTERNAL_SERVER_ERROR), w.fs)
         [] OTHER -> HandleResult("Response", empty_response(NOT_FOUND), fs)

\* handle_request against the configuration and the file system: "Response"
\* with the Response, or "Panic" when an expect fails.
handle_request(request, files_root, fs) ==
    LET r == route(request)
        path == join_path(files_root.v, r.arg)
        w == fs_write(fs, path, request.body.v)
    IN CASE r.arm = "root" -> HandleResult("Response", empty_response(OK), fs)
         [] r.arm = "user_agent" ->
              IF UserAgent \in DOMAIN request.headers
              THEN HandleResult("Response", text_reponse(OK, request.headers[UserAgent]), fs)
              ELSE HandleResult("Panic", NoResponse, fs)
         [] r.arm = "echo" -> HandleResult("Response", text_reponse(OK, r.arg), fs)
         [] r.arm = "files" ->
              IF ~files_root.some THEN HandleResult("Panic", NoResponse, fs)
              ELSE IF request.verb = "Get"
              THEN HandleResult("Response", file_response(fs, path), fs)
              ELSE IF ~request.body.some THEN HandleResult("Panic", NoResponse, fs)
              ELSE IF w.ok THEN HandleResult("Response", empty_response(CREATED), w.fs)
              ELSE HandleResult("Response", empty_response(INTERNAL_SERVER_ERROR), w.fs)
         [] OTHER -> HandleResult("Response", empty_response(NOT_FOUND), fs)

\* ------------------------------------------------------------------ clients

HTTP11 == <<"H", "T", "T", "P", "/", "1", ".", "1">>

StartLine(method, path, version) == method \o <<SP>> \o path \o <<SP>> \o version \o CRLF

HeaderLine(key, value) == key \o <<":", SP>> \o value \o CRLF

\* What one client does: the bytes it sends, what follows them, and the
\* write call at which its side of the connection starts to fail (-1: never).
Client(bytes, end, fault) == [bytes |-> bytes, end |-> end, fault |-> fault]

GetRoot == StartLine(GET, <<"/">>, HTTP11) \o CRLF
GetEcho == StartLine(GET, <<"/", "e", "c", "h", "o", "/", "a", "b">>, HTTP11) \o HeaderLine(UserAgent, <<"c">>) \o CRLF
GetUserAgentBare == StartLine(GET, <<"/">> \o UserAgentPath, HTTP11) \o CRLF
FilePath == <<"/", "f", "i", "l", "e", "s", "/", "f">>
PostFile(body) ==
    StartLine(POST, FilePath, HTTP11)
    \o HeaderLine(ContentLength, format_usize(Len(body))) \o CRLF \o body
GetFile == StartLine(GET, FilePath, HTTP11) \o CRLF

InvalidVerbClient == Client(StartLine(<<"P", "U", "T">>, <<"/">>, HTTP11) \o CRLF, "eof", -1)

\* One client for each RequestParseError.
ParseErrorClients ==
    {InvalidVerbClient,
     Client(GET, "err", -1),
     Client(GET \o <<SP, "/">> \o CRLF, "eof", -1),
     Client(StartLine(GET, <<"/">>, HTTP11) \o <<"X">>, "err", -1),
     Client(StartLine(GET, <<"/">>, HTTP11) \o <<"X">> \o CRLF \o CRLF, "eof", -1),
     Client(StartLine(POST, <<"/">>, HTTP11) \o HeaderLine(ContentLength, <<"x">>) \o CRLF,
            "eof", -1),
     Client(StartLine(POST, <<"/">>, HTTP11) \o HeaderLine(ContentLength, <<"3">>) \o CRLF
            \o <<"a">>, "eof", -1)}

StalledClient == Client(StartLine(GET, <<"/">>, HTTP11), "stall", -1)

\* Content-Length above what the allocator can supply.
OversizeClient ==
    Client(StartLine(POST, <<"/">>, HTTP11)
           \o HeaderLine(ContentLength, format_usize(AllocLimit + 2)) \o CRLF, "eof", -1)

ServerClients ==
    {StalledClient, OversizeClient, InvalidVerbClient,
          Client(GetRoot, "eof", -1),
          Client(GetEcho, "stall", 6),
          Client(GetUserAgentBare, "eof", -1),
          Client(PostFile(<<"a", "b">>), "eof", -1),
          Client(GetFile, "eof", -1)}

FairClients ==
    {StalledClient, OversizeClient,
     Client(GetEcho, "stall", -1),
     Client(GetUserAgentBare, "eof", -1),
     Client(PostFile(<<"a", "b">>), "eof", -1),
     InvalidVerbClient}

\* A POST to a file whose only length header is spelled content-length, and
\* a GET of /user-agent whose only agent header is spelled user-agent.
PostLowerLength ==
    StartLine(POST, FilePath, HTTP11)
    \o HeaderLine(<<"c", "o", "n", "t", "e", "n", "t", "-", "l", "e", "n", "g", "t", "h">>, <<"2">>)
    \o CRLF \o <<"a", "b">>
GetUserAgentLower ==
    StartLine(GET, <<"/">> \o UserAgentPath, HTTP11)
    \o HeaderLine(UserAgentPath, <<"c">>) \o CRLF

\* The clients of the runs that look at the file store: two uploads of
\* different lengths to one name, its download, and requests that fail.
FileClients ==
    {Client(PostFile(<<"a", "b">>), "eof", -1),
     Client(PostFile(<<"c">>), "eof", -1),
     Client(GetFile, "eof", -1),
     Client(PostLowerLength, "eof", -1),
     Client(GetUserAgentLower, "eof", -1),
     InvalidVerbClient}

\* The clients of the runs that look at failed parses: every way of failing,
\* beside a client whose upload changes the file store.
FailingClients == ParseErrorClients \cup {Client(PostFile(<<"a", "b">>), "eof", -1)}

\* --------------------------------------------------------------- the server

VARIABLES
    listener,    \* the main thread and its accept loop
    conns,       \* one record per connection, by order of acceptance
    fs,          \* the file system
    files_root,  \* CONFIGURATION.files_root
    clients,     \* the client behaviours that may connect in this run
    unit         \* one call of a function on one input (function-level checks)

vars == <<listener, conns, fs, files_root, clients, unit>>

ConnIds == 1..MaxConns

ConnStates == {"Idle", "Accepted", "Parsing", "Dispatching", "Responding", "Closed"}

\* A connection the listener has not accepted yet. `stream` is what the
\* client sends and `parse` what parse_request makes of it, a function of
\* those bytes alone, worked out when they are fixed. `parsed`, `dispatched`
\* and `responded` count the calls of parse_request that returned a Request,
\* of handle_request and of write_to_stream; `wrote` is whether this
\* connection's worker has touched the file system. Two fields record the
\* order of events: `after` holds the connections that were closed when
\* this one was accepted, and `disturbed` is whether another worker has
\* created or written this worker's file since this worker created it.
IdleConn ==
    [state |-> "Idle", stream |-> Reader(<<>>, "eof"), fault |-> -1,
     parse |-> ParseResult("Block", "", NoRequest, Reader(<<>>, "eof")),
     request |-> NoRequest, response |-> NoResponse, out |-> <<>>,
     parse_error |-> "", panic |-> "", file |-> None,
     parsed |-> 0, dispatched |-> 0, responded |-> 0, wrote |-> FALSE,
     after |-> {}, disturbed |-> FALSE]

NoMeta ==
    [start |-> [wf |-> FALSE, method |-> <<>>, path |-> <<>>, version |-> <<>>, raw |-> <<>>],
     lines |-> <<>>, terminated |-> FALSE, body |-> <<>>]

NoUnit ==
    [op |-> "none", done |-> TRUE, meta |-> NoMeta, stream |-> Reader(<<>>, "eof"),
     request |-> NoRequest, response |-> NoResponse, fault |-> -1,
     files_root |-> None, fs |-> EmptyFs,
     parsed |-> ParseResult("Ok", "", NoRequest, Reader(<<>>, "eof")),
     read |-> [kind |-> "Ok", err |-> "", headers |-> EmptyMap, rd |-> Reader(<<>>, "eof")],
     written |-> [ok |-> TRUE, out |-> <<>>],
     handled |-> HandleResult("Response", NoResponse, EmptyFs),
     twice |-> FALSE, again |-> HandleResult("Response", NoResponse, EmptyFs)]

Configurations == {None, Some(RootDir)}

InitServer(pool) ==
    /\ listener = "accepting"
    /\ conns = [c \in ConnIds |-> IdleConn]
    /\ fs = EmptyFs
    /\ files_root \in Configurations
    /\ clients = pool
    /\ unit = NoUnit

Init == InitServer(ServerClients)

\* main, lines 302-306: incoming() yields a stream and the loop spawns a
\* worker for it.
Accept(c) ==
    /\ listener = "accepting"
    /\ conns[c].state = "Idle"
    /\ \A d \in ConnIds : d < c => conns[d].state # "Idle"
    /\ \E cl \in clients :
          conns' = [conns EXCEPT ![c] =
                        [IdleConn EXCEPT !.state = "Accepted",
                                         !.stream = Reader(cl.bytes, cl.end),
                                         !.parse = parse_request(Reader(cl.bytes, cl.end)),
                                         !.fault = cl.fault,
                                         !.after = {d \in ConnIds :
                                                       conns[d].state = "Closed"}]]
    /\ UNCHANGED <<listener, fs, files_root, clients, unit>>

\* main, lines 307-309: incoming() yields an error, which is printed; the
\* loop goes on to its next iteration.
AcceptError ==
    /\ listener = "accepting"
    /\ UNCHANGED vars

\* handle_connection, lines 258-260: the worker starts and enters
\* parse_request.
StartParse(c) ==
    /\ conns[c].state = "Accepted"
    /\ conns' = [conns EXCEPT ![c].state = "Parsing"]
    /\ UNCHANGED <<listener, fs, files_root, clients, unit>>

\* A panic unwinds the worker's thread: its stream is dropped, which
\* closes the connection.
Panicked(conn, message) == [conn EXCEPT !.state = "Closed", !.panic = message]

\* A handler that answers a failed parse with 400 instead of panicking.
ParseFailedBadRequest(conn, err) ==
    [conn EXCEPT !.state = "Responding", !.parse_error = err,
                 !.response = empty_response(StatusCode(400, <<"B", "a", "d">>))]

\* expect("request should be parsable") on an Err.
ParseFailed(conn, err) ==
    [Panicked(conn, "request should be parsable") EXCEPT !.parse_error = err]

\* handle_alloc_error: the process aborts, and with it the listener and
\* every worker; the system closes their connections.
ProcessAborted ==
    /\ listener' = "aborted"
    /\ conns' = [d \in ConnIds |->
                    IF conns[d].state = "Idle" THEN conns[d]
                    ELSE [conns[d] EXCEPT !.state = "Closed"]]

\* handle_connection, line 260: parse_request returns (a read that blocks
\* forever never does).
Parse(c) ==
    LET r == conns[c].parse
    IN /\ conns[c].state = "Parsing"
       /\ r.kind # "Block"
       /\ IF r.kind = "Abort" THEN ProcessAborted
          ELSE /\ conns' = [conns EXCEPT ![c] =
                     CASE r.kind = "Ok" ->
                            [@ EXCEPT !.state = "Dispatching", !.request = r.request,
                                      !.parsed = @ + 1]
                       [] r.kind = "Err" -> ParseFailed(@, r.err)
                       [] OTHER -> Panicked(@, "capacity overflow")]
               /\ UNCHANGED listener
       /\ UNCHANGED <<fs, files_root, clients, unit>>

\* The path a connection's request names under files_root.
target(conn) == join_path(files_root.v, route(conn.request).arg)

\* Worker c has created or written `path`: every other worker that holds
\* the same file since its own creation of it is marked.
Touched(cs, c, path) ==
    [d \in ConnIds |->
        IF d # c /\ cs[d].wrote /\ target(cs[d]) = path
        THEN [cs[d] EXCEPT !.disturbed = TRUE]
        ELSE cs[d]]

\* handle_connection, line 261: handle_request, up to the point where
\* std::fs::write has created the file, or to its end when it writes none.
Dispatch(c) ==
    LET conn == conns[c]
        path == join_path(files_root.v, route(conn.request).arg)
        cr == fs_create(fs, path)
        h == handle_request(conn.request, files_root, fs)
    IN /\ conn.state = "Dispatching"
       /\ ~conn.file.some
       /\ IF reaches_write(conn.request, files_root)
          THEN /\ fs' = cr.fs
               /\ conns' =
                     IF cr.ok
                     THEN [Touched(conns, c, path) EXCEPT ![c] =
                             [@ EXCEPT !.file = Some(path), !.dispatched = @ + 1,
                                       !.wrote = TRUE]]
                     ELSE [conns EXCEPT ![c] =
                             [@ EXCEPT !.state = "Responding", !.dispatched = @ + 1,
                                       !.response = empty_response(INTERNAL_SERVER_ERROR)]]
          ELSE /\ fs' = h.fs
               /\ conns' = [conns EXCEPT ![c] =
                     IF h.kind = "Response"
                     THEN [@ EXCEPT !.state = "Responding", !.dispatched = @ + 1,
                                    !.response = h.response]
                     ELSE [Panicked(@, "handle_request") EXCEPT !.dispatched = @ + 1]]
       /\ UNCHANGED <<listener, files_root, clients, unit>>

\* handle_request, lines 240-241: std::fs::write hands the body to the file
\* it created and returns Ok.
FileWrite(c) ==
    LET conn == conns[c]
    IN /\ conn.state = "Dispatching"
       /\ conn.file.some
       /\ fs' = fs_write_all(fs, conn.file.v, conn.request.body.v)
       /\ conns' = [Touched(conns, c, conn.file.v) EXCEPT ![c] =
             [@ EXCEPT !.state = "Responding", !.file = None,
                       !.response = empty_response(CREATED)]]
       /\ UNCHANGED <<listener, files_root, clients, unit>>

\* A handler that keeps the connection and reads the next request from it.
RespondKeepAlive(c) ==
    LET conn == conns[c]
        w == write_to_stream(conn.response, conn.fault)
    IN /\ conn.state = "Responding"
       /\ conns' = [conns EXCEPT ![c] =
             [(IF w.ok THEN [@ EXCEPT !.state = "Parsing"]
               ELSE Panicked(@, "response can be sent back"))
              EXCEPT !.out = @ \o w.out, !.responded = @ + 1]]
       /\ UNCHANGED <<listener, fs, files_root, clients, unit>>

\* handle_connection, lines 262-265: write_to_stream, its expect, and the
\* end of the worker, which drops the stream.
Respond(c) ==
    LET conn == conns[c]
        w == write_to_stream(conn.response, conn.fault)
    IN /\ conn.state = "Responding"
       /\ conns' = [conns EXCEPT ![c] =
             [(IF w.ok THEN [@ EXCEPT !.state = "Closed"]
               ELSE Panicked(@, "response can be sent back"))
              EXCEPT !.out = @ \o w.out, !.responded = @ + 1]]
       /\ UNCHANGED <<listener, fs, files_root, clients, unit>>

\* The steps of the worker that owns connection c.
Worker(c) == StartParse(c) \/ Parse(c) \/ Dispatch(c) \/ FileWrite(c) \/ Respond(c)

Next ==
    \/ \E c \in ConnIds : Accept(c)
    \/ AcceptError
    \/ \E c \in ConnIds : StartParse(c)
    \/ \E c \in ConnIds : Parse(c)
    \/ \E c \in ConnIds : Dispatch(c)
    \/ \E c \in ConnIds : FileWrite(c)
    \/ \E c \in ConnIds : Respond(c)

Spec == Init /\ [][Next]_vars

\* Workers are threads of the operating system, each scheduled fairly; the
\* listener is not required to accept.
InitFair == InitServer(FairClients)

\* Runs whose clients are the failing ones.
InitFailing == InitServer(FailingClients)

SpecFailing == InitFailing /\ [][Next]_vars

\* Runs whose clients use the file store.
InitFiles == InitServer(FileClients)

SpecFiles == InitFiles /\ [][Next]_vars

SpecFair == InitFair /\ [][Next]_vars /\ \A c \in ConnIds : WF_vars(Worker(c))

\* ------------------------------------------------- one function, one input

SeqsUpTo(S, n) == UNION {[1..k -> S] : k \in 0..n}

\* A start line as the client wrote it: the three tokens when it has the
\* shape METHOD SP PATH SP VERSION CRLF, and its bytes.
WellFormedStart(method, path, version) ==
    [wf |-> TRUE, method |-> method, path |-> path, version |-> version,
     raw |-> StartLine(method, path, version)]

RawStart(raw) ==
    [wf |-> FALSE, method |-> <<>>, path |-> <<>>, version |-> <<>>, raw |-> raw]

\* A header line as the client wrote it, without its CRLF.
KeyValue(key, value) ==
    [wf |-> TRUE, key |-> key, value |-> value, raw |-> key \o <<":", SP>> \o value]

RawLine(raw) == [wf |-> FALSE, key |-> <<>>, value |-> <<>>, raw |-> raw]

ValidStarts ==
    {WellFormedStart(m, p, v) :
        m \in {GET, POST}, p \in {<<"/">>, <<"/", "e", "c", "h", "o", "/", "a">>}, v \in {HTTP11, <<"H">>}}

OtherStarts ==
    {RawStart(StartLine(<<"P", "U", "T">>, <<"/">>, HTTP11)),
     RawStart(StartLine(<<"g", "e", "t">>, <<"/">>, HTTP11)),
     RawStart(GET \o <<SP, "/">> \o CRLF),
     RawStart(<<"B", "A", "D">> \o CRLF),
     RawStart(GET \o <<SP, SP, "/", SP, "H">> \o CRLF),
     RawStart(GET \o <<SP, "/", SP, "H", SP, "x">> \o CRLF),
     RawStart(GET \o <<SP, "/", SP, "H", LF>>),
     RawStart(GET \o <<SP, "/", SP, NonUtf8>> \o CRLF),
     RawStart(GET \o <<SP, "/", SP, "H">>),
     RawStart(<<>>)}

LowerContentLength == <<"c", "o", "n", "t", "e", "n", "t", "-", "l", "e", "n", "g", "t", "h">>

\* The header lines that decide the body of a request.
LengthLines ==
    {KeyValue(<<"X">>, <<"1">>), KeyValue(<<"X">>, <<>>), RawLine(<<"F", "o", "o">>),
     RawLine(<<SP>>),
     KeyValue(ContentLength, <<"2">>), KeyValue(ContentLength, <<"+", "1">>),
     KeyValue(ContentLength, <<"0">>),
     KeyValue(ContentLength, <<"x">>), KeyValue(LowerContentLength, <<"2">>),
     KeyValue(ContentLength, format_usize(AllocLimit + 2)),
     KeyValue(ContentLength, format_usize(IsizeMax + 9)),
     KeyValue(ContentLength, format_usize(UsizeMax + 1))}

\* The header lines that decide the header map.
HeaderLines ==
    {KeyValue(<<"X">>, <<"1">>), KeyValue(<<"X">>, <<"2">>), KeyValue(<<"x">>, <<"1">>),
     KeyValue(<<"A">>, <<"b", ":", SP, "c">>),
     KeyValue(<<"X">>, <<>>), KeyValue(<<"X">>, <<"a", SP>>), KeyValue(<<"A">>, <<SP>>),
     KeyValue(ContentLength, <<"2">>), KeyValue(<<"a", ":", "b">>, <<"c">>),
     RawLine(<<"F", "o", "o">>)}

RequestBodies == {<<>>, <<"a">>, <<"a", "b">>, <<"a", "b", "c">>}

RECURSIVE EncodeLines(_)
EncodeLines(lines) ==
    IF lines = <<>> THEN <<>> ELSE Head(lines).raw \o CRLF \o EncodeLines(Tail(lines))

\* The bytes of a request written as its start line, its header lines, the
\* blank line (when the client got that far) and its body.
Encode(meta) ==
    meta.start.raw \o EncodeLines(meta.lines)
    \o (IF meta.terminated THEN CRLF ELSE <<>>) \o meta.body

Meta(start, lines, terminated, body) ==
    [start |-> start, lines |-> lines, terminated |-> terminated, body |-> body]

ParseInput(m, e) ==
    [NoUnit EXCEPT !.op = "parse", !.done = FALSE, !.meta = m,
                   !.stream = Reader(Encode(m), e)]

\* The inputs of parse_request: one start line before every header block,
\* and every start line before a short header block.
ParseInputs(u) ==
    \/ \E ls \in SeqsUpTo(LengthLines, MaxHeaderLines), t \in BOOLEAN,
          b \in RequestBodies, e \in StreamEnds :
          u = ParseInput(Meta(WellFormedStart(POST, <<"/", "f", "i", "l", "e", "s", "/", "f">>, <<"H">>), ls, t, b), e)
    \/ \E st \in ValidStarts \cup OtherStarts,
          ls \in {<<>>, <<KeyValue(<<"X">>, <<"1">>)>>, <<RawLine(<<"F", "o", "o">>)>>},
          t \in BOOLEAN, e \in StreamEnds :
          u = ParseInput(Meta(st, ls, t, <<>>), e)

\* parse_request on the bytes of one client.
UnitParse ==
    /\ unit.op = "parse" /\ ~unit.done
    /\ unit' = [unit EXCEPT !.done = TRUE, !.parsed = parse_request(unit.stream)]
    /\ UNCHANGED <<listener, conns, fs, files_root, clients>>

HeaderInputs(u) ==
    \E ls \in SeqsUpTo(HeaderLines, MaxHeaderLines), t \in BOOLEAN, e \in StreamEnds :
        LET m == Meta(RawStart(<<>>), ls, t, <<"a", "b">>)
        IN u = [NoUnit EXCEPT
                   !.op = "read_headers", !.done = FALSE, !.meta = m,
                   !.stream = Reader(EncodeLines(m.lines)
                                     \o (IF m.terminated THEN CRLF ELSE <<>>) \o m.body,
                                     e)]

\* read_headers on a reader that stands at the first header line.
UnitReadHeaders ==
    /\ unit.op = "read_headers" /\ ~unit.done
    /\ unit' = [unit EXCEPT !.done = TRUE, !.read = read_headers(unit.stream)]
    /\ UNCHANGED <<listener, conns, fs, files_root, clients>>

BodyBytes == {"a", CR, LF, ":", SP}

ResponseBodies == SeqsUpTo(BodyBytes, MaxBody)

Responses ==
    {empty_response(sc) : sc \in {OK, CREATED, NOT_FOUND, INTERNAL_SERVER_ERROR}}
    \cup {Response(sc, Some(Content(mime, b))) :
            sc \in {OK, NOT_FOUND}, mime \in {TextPlain, OctetStream},
            b \in ResponseBodies}

WriteFaults == {-1, 0, 4, 9}

SerializeInputs(u) ==
    \E r \in Responses, f \in WriteFaults :
        u = [NoUnit EXCEPT !.op = "serialize", !.done = FALSE, !.response = r, !.fault = f]

\* Response::write_to_stream on one Response.
UnitSerialize ==
    /\ unit.op = "serialize" /\ ~unit.done
    /\ unit' = [unit EXCEPT !.done = TRUE,
                            !.written = write_to_stream(unit.response, unit.fault)]
    /\ UNCHANGED <<listener, conns, fs, files_root, clients>>

RoutePaths ==
    {<<>>, <<"x">>, <<"/">>, <<"/", "x">>, <<"/">> \o UserAgentPath,
     <<"/">> \o UserAgentPath \o <<"/">>,
     <<"/">> \o EchoSegment, <<"/">> \o EchoSegment \o <<"/">>,
     <<"/">> \o EchoSegment \o <<"/", "a", "b">>,
     <<"/">> \o EchoSegment \o <<"/", "a", "/", "b">>,
     <<"/">> \o EchoSegment \o <<"/", "/">>,
     <<"/">> \o FilesSegment, <<"/">> \o FilesSegment \o <<"/">>, FilePath,
     <<"/">> \o FilesSegment \o <<"/", "g">>,
     <<"/">> \o FilesSegment \o <<"/">> \o RootDir \o <<"/", "f">>}

RouteHeaders ==
    {EmptyMap,
     insert(EmptyMap, UserAgent, <<"c", "u", "r", "l", "/", "8", ".", "0">>),
     insert(EmptyMap, <<"u", "s", "e", "r", "-", "a", "g", "e", "n", "t">>, <<"c">>),
     insert(insert(EmptyMap, UserAgent, <<"c", ":", SP, "d">>), ContentLength, <<"2">>)}

FileSystems == {EmptyFs, FileSystem({RootDir}, insert(EmptyMap, RootDir \o <<"/", "f">>, <<"x", "y", "z">>))}

HandleInputs(u) ==
    \E v \in {"Get", "Post"}, p \in RoutePaths, h \in RouteHeaders,
       b \in {None, Some(<<>>), Some(<<"a", "b">>)},
       fr \in Configurations, f \in FileSystems :
        u = [NoUnit EXCEPT !.op = "handle", !.done = FALSE,
                           !.request = Request(v, p, HTTP11 \o CRLF, h, b),
                           !.files_root = fr, !.fs = f]

\* handle_request on one Request, and write_to_stream on the Response it
\* returns, as handle_connection chains them.
UnitHandle ==
    LET h == handle_request(unit.request, unit.files_root, unit.fs)
    IN /\ unit.op = "handle" /\ ~unit.done
       /\ unit' = [unit EXCEPT
                      !.done = TRUE, !.handled = h,
                      !.response = h.response,
                      !.written = IF h.kind = "Response"
                                  THEN write_to_stream(h.response, -1)
                                  ELSE [ok |-> FALSE, out |-> <<>>]]
       /\ UNCHANGED <<listener, conns, fs, files_root, clients>>

\* handle_request once more on the same Request, against the file system
\* the first call left.
UnitHandleAgain ==
    /\ unit.op = "handle" /\ unit.done /\ ~unit.twice
    /\ unit.handled.kind = "Response"
    /\ unit' = [unit EXCEPT
                   !.twice = TRUE,
                   !.again = handle_request(unit.request, unit.files_root, unit.handled.fs)]
    /\ UNCHANGED <<listener, conns, fs, files_root, clients>>

\* No server runs while a single function is applied.
NoServer ==
    /\ listener = "accepting"
    /\ conns = [c \in ConnIds |-> IdleConn]
    /\ fs = EmptyFs
    /\ files_root = None
    /\ clients = {}

InitParse == NoServer /\ (ParseInputs(unit) \/ HeaderInputs(unit))

NextParse == UnitParse \/ UnitReadHeaders

SpecParse == InitParse /\ [][NextParse]_vars

InitSerialize == NoServer /\ SerializeInputs(unit)
SpecSerialize == InitSerialize /\ [][UnitSerialize]_vars

InitHandle == NoServer /\ HandleInputs(unit)
NextHandle == UnitHandle \/ UnitHandleAgain

SpecHandle == InitHandle /\ [][NextHandle]_vars

\* ------------------------------------------------------------------- claims

Forward ==
    {<<"Idle", "Accepted">>, <<"Accepted", "Parsing">>, <<"Parsing", "Dispatching">>,
     <<"Dispatching", "Responding">>, <<"Responding", "Closed">>}

\* C1: a connection only moves forward through Accepted, Parsing,
\* Dispatching, Responding, Closed, or leaves a state for Closed; it parses
\* at most one request, runs dispatch at most once and writes at most one
\* response, and it writes only after a parse and a dispatch that succeeded.
C1_ForwardOnly ==
    /\ [](\A c \in ConnIds :
            /\ conns[c].parsed <= 1 /\ conns[c].dispatched <= 1 /\ conns[c].responded <= 1
            /\ (conns[c].responded = 1 \/ conns[c].out # <<>>) =>
                  /\ conns[c].parsed = 1 /\ conns[c].dispatched = 1
                  /\ conns[c].response # NoResponse
                  /\ conns[c].state = "Closed")
    /\ [][\A c \in ConnIds :
            conns'[c].state # conns[c].state =>
               \/ <<conns[c].state, conns'[c].state>> \in Forward
               \/ conns[c].state # "Idle" /\ conns'[c].state = "Closed"]_vars

\* One connection went through all five states and was answered, another
\* left Parsing for Closed.
C1_Witness ==
    \E c, d \in ConnIds :
        /\ conns[c].state = "Closed" /\ conns[c].responded = 1 /\ conns[c].panic = ""
        /\ conns[c].out # <<>>
        /\ conns[d].state = "Closed" /\ conns[d].parse_error # ""

\* C2: a connection whose parse_request failed with a RequestParseError is
\* Closed, no byte of a response was written to it, handle_request never ran
\* for it, and the step that failed left the file store as it was.
C2_ParseErrorClosesSilently ==
    /\ [](\A c \in ConnIds :
            conns[c].parse_error # "" =>
               /\ conns[c].parse_error \in RequestParseError
               /\ conns[c].state = "Closed"
               /\ conns[c].out = <<>>
               /\ conns[c].dispatched = 0 /\ conns[c].responded = 0
               /\ ~conns[c].wrote)
    /\ [](\A c \in ConnIds :
            (conns[c].state \in {"Dispatching", "Responding"}
             \/ (conns[c].state = "Closed" /\ conns[c].parse_error = "")) =>
               parse_request(conns[c].stream).kind # "Err")
    /\ [][\A c \in ConnIds :
            (conns[c].parse_error = "" /\ conns'[c].parse_error # "") => fs' = fs]_vars

\* A failed parse beside an upload that did change the file store.
C2_Witness ==
    \E c, d \in ConnIds :
        /\ conns[c].state = "Closed" /\ conns[c].parse_error = "CouldNotReadBody"
        /\ conns[d].state = "Closed" /\ conns[d].wrote /\ conns[d].out # <<>>
        /\ fs # EmptyFs

\* C3: in every reachable state the listener is alive and accepting.
C3_ListenerAlive == listener = "accepting"

\* The client of connection c sends a complete request that parses, is
\* dispatched without a failed precondition, and reads the whole response.
GoodClient(c) ==
    /\ conns[c].parse.kind = "Ok"
    /\ handle_request(conns[c].parse.request, files_root, fs).kind = "Response"
    /\ conns[c].fault = -1

\* C4: under fair scheduling of the workers, every accepted connection whose
\* client sends a complete valid request eventually has its response written
\* and is Closed, whatever the other connections do.
C4_GoodClientAnswered ==
    \A c \in ConnIds :
        (conns[c].state = "Accepted" /\ GoodClient(c))
           ~> (conns[c].state = "Closed" /\ conns[c].responded = 1
               /\ conns[c].panic = "" /\ conns[c].out # <<>>)

IsPrefix(p, s) == Len(p) <= Len(s) /\ SubSeq(s, 1, Len(p)) = p

\* The decimal numeral of n: the digit string without a leading zero that
\* reads back as n.
Numeral(n) ==
    CHOOSE ds \in UNION {[1..k -> {Digits[d] : d \in 1..10}] : k \in 1..3} :
        /\ (Len(ds) > 1 => ds[1] # "0")
        /\ parse_usize(ds).ok /\ parse_usize(ds).val = n

StatusLineText(code) ==
    CASE code = 200 -> <<"H", "T", "T", "P", "/", "1", ".", "1", " ", "2", "0", "0", " ", "O", "K">>
      [] code = 201 -> <<"H", "T", "T", "P", "/", "1", ".", "1", " ", "2", "0", "1", " ", "C", "r", "e", "a", "t", "e", "d">>
      [] code = 404 -> <<"H", "T", "T", "P", "/", "1", ".", "1", " ", "4", "0", "4", " ", "N", "o", "t", " ", "F", "o", "u", "n", "d">>
      [] code = 500 -> <<"H", "T", "T", "P", "/", "1", ".", "1", " ", "5", "0", "0", " ", "I", "n", "t", "e", "r", "n", "a", "l", " ", "S", "e", "r", "v", "e", "r", " ", "E", "r", "r", "o", "r">>

\* The bytes of a response on the wire, as the specification words them.
Wire(response) ==
    StatusLineText(response.status_code.code) \o CRLF
    \o (IF response.content.some
        THEN <<"C", "o", "n", "t", "e", "n", "t", "-", "T", "y", "p", "e", ":", " ">> \o response.content.v.mime_type \o CRLF
             \o <<"C", "o", "n", "t", "e", "n", "t", "-", "L", "e", "n", "g", "t", "h", ":", " ">> \o Numeral(Len(response.content.v.content)) \o CRLF
             \o CRLF \o response.content.v.content
        ELSE CRLF \o CRLF)

\* C5: write_to_stream emits the status line HTTP/1.1 <code> <reason>, then
\* with content the headers Content-Type and Content-Length (the body's
\* length), a blank line and the body, and without content two CRLFs; a
\* write that fails leaves a prefix of those bytes.
C5_WireFormat ==
    (unit.op = "serialize" /\ unit.done) =>
        /\ unit.written.ok <=> (unit.fault = -1 \/ unit.fault >= Len(write_calls(unit.response)))
        /\ unit.written.ok => unit.written.out = Wire(unit.response)
        /\ IsPrefix(unit.written.out, Wire(unit.response))

\* A response with content and one without were written in full.
C5_Witness ==
    /\ unit.op = "serialize" /\ unit.done /\ unit.written.ok
    /\ unit.response.content.some
    /\ unit.response.content.v.content = <<"a", ":">>
    /\ unit.response.status_code.code = 404

\* C6: the bytes of a text/plain response, read back as a status line, a
\* header block and Content-Length bytes, give a Content-Length equal to the
\* body's length and the body itself, with nothing left over.
C6_RoundTrip ==
    (/\ unit.op = "serialize" /\ unit.done /\ unit.written.ok
     /\ unit.response.content.some
     /\ unit.response.content.v.mime_type = TextPlain) =>
        LET sl == read_line(Reader(unit.written.out, "eof"))
            hs == read_headers(sl.rd)
            n == parse_usize(hs.headers[ContentLength])
            b == read_exact(hs.rd, n.val)
        IN /\ sl.kind = "Ok" /\ hs.kind = "Ok"
           /\ ContentLength \in DOMAIN hs.headers
           /\ n.ok /\ n.val = Len(unit.response.content.v.content)
           /\ b.kind = "Ok" /\ b.bytes = unit.response.content.v.content
           /\ b.rd.buf = <<>>

\* A body that itself holds a CR LF was written and read back.
C6_Witness ==
    /\ unit.op = "serialize" /\ unit.done /\ unit.written.ok
    /\ unit.response.content.some
    /\ unit.response.content.v.mime_type = TextPlain
    /\ unit.response.content.v.content = CRLF

\* What the client put in its header block.
SentKeys(lines) == {lines[i].key : i \in 1..Len(lines)}

LastValue(lines, key) ==
    lines[CHOOSE i \in 1..Len(lines) :
            /\ lines[i].key = key
            /\ \A j \in 1..Len(lines) : lines[j].key = key => j <= i].value

AllWellFormed(lines) == \A i \in 1..Len(lines) : lines[i].wf

\* Every line has a value with a byte that is not whitespace.
AllValued(lines) == \A i \in 1..Len(lines) : trim_end(lines[i].value) # <<>>

\* C7: a parsed Request has a body iff the client sent Content-Length with a
\* value that is a non-negative decimal integer n, and the body is the n
\* bytes after the blank line; a value that is no such integer gives
\* InvalidContentLength and fewer than n bytes before the end of the stream
\* give CouldNotReadBody.
C7_BodyIffContentLength ==
    (/\ unit.op = "parse" /\ unit.done /\ unit.meta.start.wf
     /\ AllWellFormed(unit.meta.lines) /\ AllValued(unit.meta.lines)
     /\ unit.meta.terminated) =>
        LET p == unit.parsed
            has == ContentLength \in SentKeys(unit.meta.lines)
            n == parse_usize(trim_end(LastValue(unit.meta.lines, ContentLength)))
        IN /\ (p.kind = "Ok" /\ ~has) => ~p.request.body.some
           /\ (p.kind = "Ok" /\ has) =>
                 /\ n.ok /\ p.request.body.some
                 /\ p.request.body.v = SubSeq(unit.meta.body, 1, n.val)
                 /\ Len(p.request.body.v) = n.val
           /\ ~has => p.kind = "Ok"
           /\ (has /\ ~n.ok) => (p.kind = "Err" /\ p.err = "InvalidContentLength")
           /\ (has /\ n.ok /\ Len(unit.meta.body) < n.val /\ unit.stream.end # "stall") =>
                 (p.kind = "Err" /\ p.err = "CouldNotReadBody")

\* C8: a start line METHOD PATH VERSION CRLF followed by a blank line parses
\* to a Request with that method, that path, that version (without the line
\* terminator), no header and no body.
C8_StartLineFields ==
    (/\ unit.op = "parse" /\ unit.done /\ unit.meta.start.wf
     /\ unit.meta.lines = <<>> /\ unit.meta.terminated) =>
        /\ unit.parsed.kind = "Ok"
        /\ unit.parsed.request.verb = (IF unit.meta.start.method = GET THEN "Get" ELSE "Post")
        /\ unit.parsed.request.path = unit.meta.start.path
        /\ unit.parsed.request.version = unit.meta.start.version
        /\ unit.parsed.request.headers = EmptyMap
        /\ ~unit.parsed.request.body.some

\* C9: a block of Key: Value lines ended by a blank line gives the map of
\* the keys sent (as sent, no case folding), each key once, to the value of
\* its last line, the key being the text before the first ": " and the value
\* everything after it.
C9_LastValueVerbatim ==
    (/\ unit.op = "read_headers" /\ unit.done
     /\ AllWellFormed(unit.meta.lines) /\ unit.meta.terminated) =>
        /\ unit.read.kind = "Ok"
        /\ DOMAIN unit.read.headers = SentKeys(unit.meta.lines)
        /\ \A k \in SentKeys(unit.meta.lines) :
              unit.read.headers[k] = LastValue(unit.meta.lines, k)

\* What read_headers does with such a block (trim_end runs before
\* split_once): when each value holds a byte that is not whitespace it gives
\* the map of the keys sent, each to the value of its last line without its
\* trailing whitespace, and leaves the reader after the blank line; a line
\* whose value is empty or all whitespace makes it fail with InvalidHeader.
C9_LastValueTrimmed ==
    (/\ unit.op = "read_headers" /\ unit.done
     /\ AllWellFormed(unit.meta.lines) /\ unit.meta.terminated) =>
        IF AllValued(unit.meta.lines)
        THEN /\ unit.read.kind = "Ok"
             /\ DOMAIN unit.read.headers = SentKeys(unit.meta.lines)
             /\ \A k \in SentKeys(unit.meta.lines) :
                   unit.read.headers[k] = trim_end(LastValue(unit.meta.lines, k))
             /\ unit.read.rd.buf = unit.meta.body
        ELSE unit.read.kind = "Err" /\ unit.read.err = "InvalidHeader"

\* A key sent twice with two values.
C9_Witness ==
    /\ unit.op = "read_headers" /\ unit.done /\ unit.meta.terminated
    /\ unit.read.kind = "Ok"
    /\ unit.meta.lines = <<KeyValue(<<"X">>, <<"1">>), KeyValue(<<"X">>, <<"2">>)>>
    /\ unit.read.headers[<<"X">>] = <<"2">>

EchoPrefix == <<"/">> \o EchoSegment \o <<"/">>

\* C10: whatever the method and the body, path / gives 200 without content,
\* /user-agent with a User-Agent header gives 200 text/plain with that
\* header's value, and /echo/<rest> gives 200 text/plain with <rest> (all
\* that follows the first /echo/) and its length as Content-Length; none of
\* them touches the file store.
C10_PlainRoutes ==
    (unit.op = "handle" /\ unit.done) =>
        LET path == unit.request.path
            h == unit.handled
            rest == SubSeq(path, Len(EchoPrefix) + 1, Len(path))
        IN /\ path = <<"/">> =>
                /\ h.kind = "Response" /\ h.response = Response(OK, None)
                /\ unit.written.out = Wire(Response(OK, None))
                /\ h.fs = unit.fs
           /\ (path = <<"/">> \o UserAgentPath /\ UserAgent \in DOMAIN unit.request.headers) =>
                /\ h.kind = "Response"
                /\ h.response =
                      Response(OK, Some(Content(TextPlain, unit.request.headers[UserAgent])))
                /\ h.fs = unit.fs
           /\ IsPrefix(EchoPrefix, path) =>
                /\ h.kind = "Response"
                /\ h.response = Response(OK, Some(Content(TextPlain, rest)))
                /\ unit.written.ok
                /\ unit.written.out = Wire(Response(OK, Some(Content(TextPlain, rest))))
                /\ h.fs = unit.fs

\* A POST with a body to /echo/a/b was answered with a/b.
C10_Witness ==
    /\ unit.op = "handle" /\ unit.done
    /\ unit.request.verb = "Post" /\ unit.request.body.some
    /\ unit.request.path = EchoPrefix \o <<"a", "/", "b">>
    /\ unit.handled.response.content.v.content = <<"a", "/", "b">>

FilesPrefix == <<"/">> \o FilesSegment \o <<"/">>

\* The path has one of the four shapes /, /user-agent, /echo/<rest> and
\* /files/<name>.
KnownPath(path) ==
    \/ path = <<"/">>
    \/ path = <<"/">> \o UserAgentPath
    \/ IsPrefix(EchoPrefix, path)
    \/ IsPrefix(FilesPrefix, path)

\* C11: a request whose path is none of /, /user-agent, /echo/<rest> and
\* /files/<name> (a path without a leading '/', the empty path, /echo,
\* /files and /user-agent/ among them) is answered 404 without content,
\* whatever its method, headers and body; handle_request does not panic on
\* it and leaves the file store as it was.
C11_UnknownPaths ==
    (unit.op = "handle" /\ unit.done /\ ~KnownPath(unit.request.path)) =>
        /\ unit.handled.kind = "Response"
        /\ unit.handled.response = Response(NOT_FOUND, None)
        /\ unit.written.ok
        /\ unit.written.out = Wire(Response(NOT_FOUND, None))
        /\ unit.handled.fs = unit.fs

\* POST /files, without the '/' that starts a name, got 404 on a server
\* that has no files_root.
C11_Witness ==
    /\ unit.op = "handle" /\ unit.done
    /\ unit.request.path = <<"/">> \o FilesSegment
    /\ unit.request.verb = "Post" /\ ~unit.files_root.some
    /\ unit.handled.response.status_code = NOT_FOUND

\* Connection c carried a POST to a file that was answered 201 without
\* content, in full.
Uploaded(c) ==
    /\ conns[c].state = "Closed"
    /\ conns[c].request.verb = "Post"
    /\ route(conns[c].request).arm = "files"
    /\ conns[c].request.body.some
    /\ conns[c].out = Wire(Response(CREATED, None))

\* Connection c carries a GET of the file that connection u uploaded, and
\* was accepted after u was closed.
DownloadAfter(c, u) ==
    /\ u \in conns[c].after
    /\ conns[c].request.verb = "Get"
    /\ route(conns[c].request).arm = "files"
    /\ target(conns[c]) = target(conns[u])

\* C12: when a POST to /files/<name> with body b has been answered 201 and
\* no other worker has created or written that file since, a GET of
\* /files/<name> on a connection accepted after that answer is answered 200
\* application/octet-stream with body b; and a 201 is handed to
\* write_to_stream only when the file holds the whole body, unless another
\* worker has touched the file meanwhile.
C12_ReadYourWrite ==
    /\ [][\A c, u \in ConnIds :
            (/\ conns[c].state = "Dispatching" /\ conns'[c].state # "Dispatching"
             /\ listener' = "accepting"
             /\ Uploaded(u) /\ DownloadAfter(c, u) /\ ~conns[u].disturbed) =>
                /\ conns'[c].state = "Responding"
                /\ conns'[c].response =
                      Response(OK, Some(Content(OctetStream, conns[u].request.body.v)))]_vars
    /\ [][\A c \in ConnIds :
            (/\ conns[c].state = "Responding" /\ conns'[c].responded = conns[c].responded + 1
             /\ conns[c].response.status_code = CREATED /\ ~conns[c].disturbed) =>
                /\ target(conns[c]) \in DOMAIN fs.files
                /\ fs.files[target(conns[c])] = conns[c].request.body.v]_vars

\* An upload of ab was answered 201 on the first connection, and the second
\* connection, accepted after that, was sent 200 with the body ab.
C12_Witness ==
    /\ Uploaded(1) /\ DownloadAfter(2, 1) /\ ~conns[1].disturbed
    /\ conns[1].request.body.v = <<"a", "b">>
    /\ conns[2].state = "Closed"
    /\ conns[2].out = Wire(Response(OK, Some(Content(OctetStream, <<"a", "b">>))))

\* The file system lets a regular file be created at `path`.
Writable(f, path) ==
    /\ ParentDir(path) \in f.dirs
    /\ FileName(path) # <<>>
    /\ path \notin f.dirs

\* C13: the same POST /files/<name> with body b, issued twice in sequence
\* with files_root set and a writable store, is answered 201 without
\* content both times, and the file holds exactly b after the first call
\* and after the second, whatever it held before.
C13_UploadIdempotent ==
    LET path == join_path(unit.files_root.v, route(unit.request).arg)
    IN (/\ unit.op = "handle" /\ unit.twice
        /\ unit.request.verb = "Post" /\ IsPrefix(FilesPrefix, unit.request.path)
        /\ unit.request.body.some /\ unit.files_root.some
        /\ Writable(unit.fs, path)) =>
            /\ unit.handled.kind = "Response" /\ unit.again.kind = "Response"
            /\ unit.handled.response = Response(CREATED, None)
            /\ unit.again.response = Response(CREATED, None)
            /\ path \in DOMAIN unit.handled.fs.files
            /\ unit.handled.fs.files[path] = unit.request.body.v
            /\ unit.again.fs = unit.handled.fs

\* The body ab was posted twice over a file that held xyz.
C13_Witness ==
    /\ unit.op = "handle" /\ unit.twice
    /\ unit.request.path = FilePath /\ unit.request.body = Some(<<"a", "b">>)
    /\ unit.fs.files = insert(EmptyMap, RootDir \o <<"/", "f">>, <<"x", "y", "z">>)
    /\ unit.again.response = Response(CREATED, None)
    /\ unit.again.fs.files[RootDir \o <<"/", "f">>] = <<"a", "b">>

\* The <name> of a /files/<name> path, and the entry <files_root>/<name>.
NameOf(path) == SubSeq(path, Len(FilesPrefix) + 1, Len(path))

UnderRoot(root, name) == root \o <<"/">> \o name

\* C14: GET /files/<name> with files_root set is answered 200
\* application/octet-stream with the stored bytes of <files_root>/<name>
\* when that file can be read and 404 without content when it cannot (an
\* empty <name> included), and leaves the file store as it was.
C14_DownloadUnderRoot ==
    (/\ unit.op = "handle" /\ unit.done
     /\ unit.request.verb = "Get" /\ IsPrefix(FilesPrefix, unit.request.path)
     /\ unit.files_root.some) =>
        LET entry == UnderRoot(unit.files_root.v, NameOf(unit.request.path))
        IN /\ unit.handled.kind = "Response"
           /\ unit.handled.fs = unit.fs
           /\ unit.handled.response =
                 IF entry \in DOMAIN unit.fs.files
                 THEN Response(OK, Some(Content(OctetStream, unit.fs.files[entry])))
                 ELSE Response(NOT_FOUND, None)

\* The request breaks a precondition of its route.
PreconditionViolated(request, root) ==
    \/ request.path = <<"/">> \o UserAgentPath /\ UserAgent \notin DOMAIN request.headers
    \/ IsPrefix(FilesPrefix, request.path) /\ ~root.some
    \/ IsPrefix(FilesPrefix, request.path) /\ request.verb = "Post" /\ ~request.body.some

\* C15: the dispatch of a request that breaks a precondition (/user-agent
\* without a header named exactly User-Agent, POST /files/<name> without a
\* body, any /files/<name> while files_root is unset) ends its connection
\* with a panic and without one response byte, and changes neither the
\* listener, nor any other connection, nor the file store.
C15_PreconditionFatal ==
    [][\A c \in ConnIds :
          (/\ conns[c].state = "Dispatching"
           /\ conns'[c].dispatched = conns[c].dispatched + 1
           /\ PreconditionViolated(conns[c].request, files_root)) =>
              /\ conns'[c].state = "Closed"
              /\ conns'[c].panic # ""
              /\ conns'[c].out = <<>>
              /\ conns'[c].responded = 0
              /\ fs' = fs
              /\ listener' = listener
              /\ \A d \in ConnIds \ {c} : conns'[d] = conns[d]]_vars

\* With files_root set, a GET of /user-agent with a user-agent header and a
\* POST with a content-length header have both died without a byte written,
\* and the listener accepts.
C15_Witness ==
    /\ files_root.some /\ listener = "accepting"
    /\ \E c, d \in ConnIds :
          /\ conns[c].state = "Closed" /\ conns[c].dispatched = 1
          /\ conns[c].request.path = <<"/">> \o UserAgentPath
          /\ conns[c].panic # "" /\ conns[c].out = <<>>
          /\ conns[d].state = "Closed" /\ conns[d].dispatched = 1
          /\ conns[d].request.path = FilePath /\ conns[d].request.verb = "Post"
          /\ conns[d].panic # "" /\ conns[d].out = <<>>

\* The statuses of mod status_codes, as the claim lists them.
Catalog ==
    {[code |-> 200, status |-> <<"O", "K">>],
     [code |-> 201, status |-> <<"C", "r", "e", "a", "t", "e", "d">>],
     [code |-> 404, status |-> <<"N", "o", "t", SP, "F", "o", "u", "n", "d">>],
     [code |-> 500, status |-> <<"I", "n", "t", "e", "r", "n", "a", "l", SP,
                                 "S", "e", "r", "v", "e", "r", SP, "E", "r", "r", "o", "r">>]}

\* C16: every response handle_request returns has one of the statuses 200
\* OK, 201 Created, 404 Not Found and 500 Internal Server Error, and its
\* bytes start with that status line; 500 answers only a POST /files/<name>
\* whose write failed and 201 only one whose write stored the body; 201,
\* 404 and 500 carry no content.
C16_StatusCatalog ==
    (unit.op = "handle" /\ unit.done /\ unit.handled.kind = "Response") =>
        LET r == unit.handled.response
            upload == /\ unit.request.verb = "Post"
                      /\ IsPrefix(FilesPrefix, unit.request.path)
                      /\ unit.files_root.some /\ unit.request.body.some
            path == join_path(unit.files_root.v, NameOf(unit.request.path))
        IN /\ r.status_code \in Catalog
           /\ IsPrefix(StatusLineText(r.status_code.code) \o CRLF, unit.written.out)
           /\ r.status_code.code = 500 =>
                 (upload /\ ~Writable(unit.fs, path) /\ unit.handled.fs = unit.fs)
           /\ r.status_code.code = 201 =>
                 /\ upload /\ Writable(unit.fs, path)
                 /\ path \in DOMAIN unit.handled.fs.files
                 /\ unit.handled.fs.files[path] = unit.request.body.v
           /\ r.status_code.code # 200 => ~r.content.some

\* A POST to /files/ with an empty name, which names the directory itself,
\* was answered 500.
C16_Witness ==
    /\ unit.op = "handle" /\ unit.done /\ unit.handled.kind = "Response"
    /\ unit.request.path = FilesPrefix /\ unit.request.verb = "Post"
    /\ unit.handled.response = Response([code |-> 500,
                                          status |-> INTERNAL_SERVER_ERROR.status], None)

\* Two file systems hold the same directories and, but for `entry`, the
\* same files.
SameBut(f, g, entry) ==
    /\ f.dirs = g.dirs
    /\ (DOMAIN f.files) \ {entry} = (DOMAIN g.files) \ {entry}
    /\ \A p \in (DOMAIN f.files) \ {entry} : f.files[p] = g.files[p]

\* C17: handle_request changes the file store only for a POST
\* /files/<name> that reaches the write, and then only the entry
\* <files_root>/<name>; every other request leaves the store as it was; and
\* files_root never changes.
C17_Frame ==
    /\ [](unit.op = "handle" /\ unit.done =>
            LET upload == /\ unit.request.verb = "Post"
                          /\ IsPrefix(FilesPrefix, unit.request.path)
                          /\ unit.files_root.some /\ unit.request.body.some
                entry == UnderRoot(unit.files_root.v, NameOf(unit.request.path))
            IN IF upload THEN SameBut(unit.fs, unit.handled.fs, entry)
               ELSE unit.handled.fs = unit.fs)
    /\ [][files_root' = files_root /\ unit'.files_root = unit.files_root]_vars

\* The first line of a stream whose bytes hold a LF, and what follows it.
FirstLine(bytes) == SubSeq(bytes, 1, CHOOSE i \in 1..Len(bytes) :
                                        bytes[i] = LF /\ \A j \in 1..(i - 1) : bytes[j] # LF)

AfterFirstLine(bytes) == SubSeq(bytes, Len(FirstLine(bytes)) + 1, Len(bytes))

\* The number of tokens that single spaces separate, and the first of them.
TokenCount(line) == Cardinality({i \in 1..Len(line) : line[i] = SP}) + 1

FirstToken(line) ==
    IF \E i \in 1..Len(line) : line[i] = SP
    THEN SubSeq(line, 1, (CHOOSE i \in 1..Len(line) :
                              line[i] = SP /\ \A j \in 1..(i - 1) : line[j] # SP) - 1)
    ELSE line

\* C18: parse_request reports the first step that fails. A start line of
\* fewer than three tokens gives InvalidStructure whatever its first token;
\* one of at least three tokens whose first is neither GET nor POST gives
\* InvalidVerb with no byte after the start line consumed; after a good
\* start line a header line without ": " gives InvalidHeader whatever
\* Content-Length says; and Content-Length is looked at (InvalidContentLength,
\* the body's buffer, CouldNotReadBody) only when every line of the header
\* block has been read.
C18_FirstFailure ==
    (unit.op = "parse" /\ unit.done) =>
        LET p == unit.parsed
            bytes == unit.stream.buf
            received == \E i \in 1..Len(bytes) : bytes[i] = LF
            line == FirstLine(bytes)
        IN /\ (received /\ IsUtf8(line) /\ TokenCount(line) < 3) =>
                 (p.kind = "Err" /\ p.err = "InvalidStructure")
           /\ (received /\ IsUtf8(line) /\ TokenCount(line) >= 3
               /\ FirstToken(line) \notin {GET, POST}) =>
                 /\ p.kind = "Err" /\ p.err = "InvalidVerb"
                 /\ p.rd.buf = AfterFirstLine(bytes)
           /\ (unit.meta.start.wf /\ ~AllWellFormed(unit.meta.lines)) =>
                 (p.kind = "Err" /\ p.err = "InvalidHeader")
           /\ (\/ p.kind \in {"Panic", "Abort"}
               \/ p.kind = "Err" /\ p.err \in {"InvalidContentLength", "CouldNotReadBody"}) =>
                 /\ unit.meta.start.wf /\ AllWellFormed(unit.meta.lines)
                 /\ unit.meta.terminated \/ unit.stream.end = "eof"

\* The client sent its start line and whole header lines, then closed its
\* sending side without the blank line.
CutOff ==
    /\ unit.op = "parse" /\ unit.done /\ unit.meta.start.wf
    /\ ~unit.meta.terminated /\ unit.meta.body = <<>> /\ unit.stream.end = "eof"

\* The header map the lines sent amount to.
HeadersSent(lines) ==
    [k \in SentKeys(lines) |-> trim_end(LastValue(lines, k))]

\* C19: parse_request returns on every input the client ends by closing its
\* side, and a request with a valid start line whose Key: Value lines are
\* cut off by the end of the stream, with no blank line, is parsed
\* successfully with the headers read so far.
C19_CutOffAccepted ==
    /\ (unit.op = "parse" /\ unit.done /\ unit.stream.end = "eof") =>
           unit.parsed.kind # "Block"
    /\ (CutOff /\ AllWellFormed(unit.meta.lines) /\ AllValued(unit.meta.lines)) =>
           /\ unit.parsed.kind = "Ok"
           /\ unit.parsed.request.headers = HeadersSent(unit.meta.lines)

\* C19, amended: parse_request returns on every input the client ends by
\* closing its side (or the process ends in it), and a request with a valid
\* start line whose Key: Value lines are cut off by the end of the stream,
\* with no blank line, is parsed successfully with the headers read so far
\* when none of them is named Content-Length (then without a body) or when
\* Content-Length reads as 0 (then with an empty body); when Content-Length
\* asks for bytes or is no number, the parse fails, no body byte being there.
C19_CutOffAcceptedWithoutBody ==
    /\ (unit.op = "parse" /\ unit.done /\ unit.stream.end = "eof") =>
           unit.parsed.kind # "Block"
    /\ (CutOff /\ AllWellFormed(unit.meta.lines) /\ AllValued(unit.meta.lines)) =>
           LET p == unit.parsed
               has == ContentLength \in SentKeys(unit.meta.lines)
               n == parse_usize(trim_end(LastValue(unit.meta.lines, ContentLength)))
           IN /\ ~has =>
                   /\ p.kind = "Ok"
                   /\ p.request.headers = HeadersSent(unit.meta.lines)
                   /\ ~p.request.body.some
              /\ (has /\ n.ok /\ n.val = 0) =>
                   /\ p.kind = "Ok"
                   /\ p.request.headers = HeadersSent(unit.meta.lines)
                   /\ p.request.body = Some(<<>>)
              /\ (has /\ ~(n.ok /\ n.val = 0)) => p.kind \in {"Err", "Panic", "Abort"}

\* A POST whose two header lines were followed by the end of the stream was
\* parsed with both headers.
C19_Witness ==
    /\ CutOff /\ Len(unit.meta.lines) = 2
    /\ unit.parsed.kind = "Ok"
    /\ DOMAIN unit.parsed.request.headers = {<<"X">>, LowerContentLength}

\* Connection c carries a POST that has created its file.
Uploader(c) == conns[c].wrote

Body(c) == conns[c].request.body.v

\* x written from offset 0 over a file that held y.
Over(x, y) == x \o SubSeq(y, Len(x) + 1, Len(y))

\* c and d are the only two uploaders, of different bodies to one file, and
\* both were answered 201.
BothAnswered(c, d) ==
    /\ c # d /\ Uploaded(c) /\ Uploaded(d)
    /\ target(conns[c]) = target(conns[d])
    /\ Body(c) # Body(d)
    /\ \A e \in ConnIds \ {c, d} : ~Uploader(e)

\* Connection c, a GET of a file, leaves handle_request in this step while
\* d, the only uploader there has been, is inside its POST to that file.
DownloadDuring(c, d) ==
    /\ conns[c].state = "Dispatching" /\ conns'[c].state = "Responding"
    /\ conns[c].request.verb = "Get" /\ route(conns[c].request).arm = "files"
    /\ files_root.some
    /\ conns[d].state = "Dispatching" /\ conns[d].request.verb = "Post"
    /\ reaches_write(conns[d].request, files_root)
    /\ target(conns[d]) = target(conns[c])
    /\ \A e \in ConnIds \ {d} : ~Uploader(e)

\* C20: when two POSTs of different bodies b1 and b2 to one name have both
\* been answered 201, the file holds exactly b1 or exactly b2, never a
\* mixture; and a GET of the name that runs during a POST to it is answered
\* 404, the previous content (none, the file being new) or the whole new
\* body, never a part of it.
C20_NoMixture ==
    /\ [](\A c, d \in ConnIds :
            BothAnswered(c, d) => fs.files[target(conns[c])] \in {Body(c), Body(d)})
    /\ [][\A c, d \in ConnIds :
            DownloadDuring(c, d) =>
               conns'[c].response \in
                  {Response(NOT_FOUND, None),
                   Response(OK, Some(Content(OctetStream, Body(d))))}]_vars

\* Every byte of the content is the byte some upload to `path` has at that
\* position, and the content starts with the whole body of one of them.
MadeOfUploads(content, path) ==
    LET ups == {e \in ConnIds : Uploader(e) /\ target(conns[e]) = path}
    IN /\ \E e \in ups : IsPrefix(Body(e), content)
       /\ \A i \in 1..Len(content) :
             \E e \in ups : i <= Len(Body(e)) /\ content[i] = Body(e)[i]

\* C20, amended: when two POSTs of different bodies b1 and b2 to one name
\* have both been answered 201, the file holds the body whose write came
\* last, followed by the tail of the other body when that one is longer and
\* its write came after the last writer's creation of the file; and a GET
\* of the name that runs during POSTs to it is answered 404 or 200 with what
\* the file holds at that moment: nothing (the file is created empty before
\* the body is written), or a whole uploaded body, alone or followed by the
\* tail of a longer one.
C20_LastWriteOverlay ==
    /\ [](\A c, d \in ConnIds :
            BothAnswered(c, d) =>
               fs.files[target(conns[c])] \in
                  {Body(c), Body(d), Over(Body(c), Body(d)), Over(Body(d), Body(c))})
    /\ [](\A path \in DOMAIN fs.files :
            fs.files[path] = <<>> \/ MadeOfUploads(fs.files[path], path))
    /\ [][\A c \in ConnIds :
            (/\ conns[c].state = "Dispatching" /\ conns'[c].state = "Responding"
             /\ conns[c].request.verb = "Get" /\ route(conns[c].request).arm = "files"
             /\ files_root.some) =>
               conns'[c].response =
                  IF target(conns[c]) \in DOMAIN fs.files
                  THEN Response(OK, Some(Content(OctetStream, fs.files[target(conns[c])])))
                  ELSE Response(NOT_FOUND, None)]_vars

\* Both uploads were inside std::fs::write at once, both were answered 201,
\* and the file holds c followed by the b of ab.
C20_Witness ==
    /\ BothAnswered(1, 2)
    /\ conns[1].disturbed /\ conns[2].disturbed
    /\ Body(1) = <<"a", "b">> /\ Body(2) = <<"c">>
    /\ fs.files[target(conns[1])] = <<"c", "b">>

====
